---- MODULE Spec2Model ----
(***************************************************************************)
(* A state-machine model of copt/stochastic.py: the SAGA/ASAGA solver      *)
(* minimize_SAGA, its kernel factory _factory_sparse_SAGA, the block       *)
(* support builder _support_matrix and the per-worker epoch kernel         *)
(* epoch_iteration_template.                                               *)
(*                                                                         *)
(* Arrays are functions on 0..n-1, so that every index is the code's own.  *)
(* Floating-point values are integers: the problem instances of Problems   *)
(* are chosen so that every division the kernel performs is exact, and on  *)
(* such inputs float64 computes the same numbers.  The degree vector d is  *)
(* kept as the quotient <<numerator, denominator>> it is computed from.    *)
(* A certificate (a Euclidean norm, hence a square root) and the tolerance *)
(* are carried as their squares, which preserves the order of              *)
(* non-negative numbers; Inf stands for np.inf.                            *)
(***************************************************************************)
EXTENDS Integers, Sequences, FiniteSets, TLC

\* ---------------------------------------------------------------- bounds
\* Standalone calls of _support_matrix: rows, columns and stored entries.
MaxRows == 2
MaxCols == 2
MaxNnz == 3
\* A solve: the number of workers and the epoch budget the caller may pass.
MaxJobs == 3
MaxIter == 3

\* np.inf (the certificate before any convergence check).
Inf == -1

\* ------------------------------------------------------------- utilities
\* np.zeros(n) / np.ones(n): an array of n equal entries.
Arr(n, v) == [k \in 0..(n - 1) |-> v]

\* np.arange(n)
Arange(n) == [k \in 0..(n - 1) |-> k]

\* The entries a[lo..hi-1] of an array, as a sequence (a slice).
RECURSIVE Slice(_, _, _)
Slice(a, lo, hi) == IF lo >= hi THEN << >> ELSE << a[lo] >> \o Slice(a, lo + 1, hi)

\* a.size
Size(a) == Cardinality(DOMAIN a)

\* The set of values of a sequence.
Range(s) == {s[k] : k \in DOMAIN s}

\* All arrays of length n with entries in S.
Arrays(n, S) == [0..(n - 1) -> S]

VARIABLES
    \* ---- the caller's arguments of minimize_SAGA
    f, is_separable, step_size, n_jobs, max_iter, tol, trace,
    \* ---- minimize_SAGA: position, the buffers it allocates, its result
    opc, allocated, x, memory_gradient, gradient_average, stop_flag, trace_x,
    result,
    \* ---- _support_matrix: arguments, locals, position and return value
    A_indices, A_indptr, g_blocks, n_blocks,
    BS_indices, BS_indptr, seen_blocks, counter_indptr,
    sm_pc, sm_i, sm_j, BS_data,
    \* ---- _factory_sparse_SAGA: the degree vector captured by the kernel
    d,
    \* ---- epoch_iteration_template: one record of locals per submitted job
    wk

args == << f, is_separable, step_size, n_jobs, max_iter, tol, trace >>
orch == << opc, allocated, result >>
shared == << x, memory_gradient, gradient_average, stop_flag, trace_x >>
sm_in == << A_indices, A_indptr, g_blocks, n_blocks >>
sm_loc == << BS_indices, BS_indptr, seen_blocks, counter_indptr, sm_pc, sm_i, sm_j, BS_data >>
vars == << args, orch, shared, sm_in, sm_loc, d, wk >>

\* ------------------------------------------------------ _support_matrix
\* Line 127 / line 132: marking a block as seen, and the cleanup of a mark.
MarkSeen(seen, g_idx) == [seen EXCEPT ![g_idx] = 1]

ClearSeen_Skipped(seen, g_idx) == seen

ClearSeen(seen, g_idx) == [seen EXCEPT ![g_idx] = 0]

\* Line 123: is this the first time the row meets the block?
FirstSeen_Always(seen, g_idx) == TRUE

FirstSeen(seen, g_idx) == seen[g_idx] = 0

\* Lines 113-117: the output arrays, the marker array and the counter.
SupportCall ==
    /\ sm_pc = "call"
    /\ BS_indices' = Arr(Size(A_indices), 0)
    /\ BS_indptr' = Arr(Size(A_indptr), 0)
    /\ seen_blocks' = Arr(n_blocks, 0)
    /\ counter_indptr' = 0
    /\ sm_i' = 0
    /\ sm_j' = 0
    /\ sm_pc' = "row"
    /\ UNCHANGED << args, orch, shared, sm_in, BS_data, d, wk >>

\* Lines 118-120: the next row, or the end of the row loop.
SupportRow ==
    /\ sm_pc = "row"
    /\ IF sm_i < Size(A_indptr) - 1
       THEN /\ sm_j' = A_indptr[sm_i]
            /\ sm_pc' = "scan"
       ELSE /\ sm_j' = sm_j
            /\ sm_pc' = "ret"
    /\ UNCHANGED << args, orch, shared, sm_in, BS_indices, BS_indptr,
                    seen_blocks, counter_indptr, sm_i, BS_data, d, wk >>

\* Lines 121-129: one stored entry of the row, or the row's end pointer.
SupportScan ==
    /\ sm_pc = "scan"
    /\ IF sm_j < A_indptr[sm_i + 1]
       THEN LET g_idx == g_blocks[A_indices[sm_j]] IN
            /\ IF FirstSeen(seen_blocks, g_idx)
               THEN /\ BS_indices' = [BS_indices EXCEPT ![counter_indptr] = g_idx]
                    /\ seen_blocks' = MarkSeen(seen_blocks, g_idx)
                    /\ counter_indptr' = counter_indptr + 1
               ELSE UNCHANGED << BS_indices, seen_blocks, counter_indptr >>
            /\ sm_j' = sm_j + 1
            /\ UNCHANGED << BS_indptr, sm_pc >>
       ELSE /\ BS_indptr' = [BS_indptr EXCEPT ![sm_i + 1] = counter_indptr]
            /\ sm_j' = BS_indptr[sm_i]
            /\ sm_pc' = "cleanup"
            /\ UNCHANGED << BS_indices, seen_blocks, counter_indptr >>
    /\ UNCHANGED << args, orch, shared, sm_in, sm_i, BS_data, d, wk >>

\* Lines 131-132: clear the marks of the blocks just emitted for the row.
SupportCleanup ==
    /\ sm_pc = "cleanup"
    /\ IF sm_j < counter_indptr
       THEN /\ seen_blocks' = ClearSeen(seen_blocks, BS_indices[sm_j])
            /\ sm_j' = sm_j + 1
            /\ UNCHANGED << sm_i, sm_pc >>
       ELSE /\ sm_i' = sm_i + 1
            /\ sm_pc' = "row"
            /\ UNCHANGED << seen_blocks, sm_j >>
    /\ UNCHANGED << args, orch, shared, sm_in, BS_indices, BS_indptr,
                    counter_indptr, BS_data, d, wk >>

\* Lines 133-134: the returned triple (BS_indices is cut to the counter).
SupportReturn ==
    /\ sm_pc = "ret"
    /\ BS_data' = Arr(counter_indptr, 1)
    /\ BS_indices' = [k \in 0..(counter_indptr - 1) |-> BS_indices[k]]
    /\ sm_pc' = "done"
    /\ UNCHANGED << args, orch, shared, sm_in, BS_indptr, seen_blocks,
                    counter_indptr, sm_i, sm_j, d, wk >>

\* ------------------------------------------------- _factory_sparse_SAGA
\* Line 164: BS.sum(0)[j], the sum of column j of the block-support matrix
\* (every stored entry of BS is 1, so it is the number of entries at column j).
ColumnSum(data, indices, j) ==
    Cardinality({k \in DOMAIN indices : indices[k] = j /\ data[k] = 1})

\* Lines 165-167: d[idx] = n_samples / d[idx]; d[~idx] = 0.  A degree is the
\* quotient << numerator, denominator >>.
DegreeOf_Inverted(n, s) == IF s # 0 THEN << s, n >> ELSE << 0, 1 >>

DegreeOf(n, s) == IF s # 0 THEN << n, s >> ELSE << 0, 1 >>

\* Lines 160-167: the degree vector, one entry per block, from the builder's
\* return value; n_samples is A.shape[0].
Degree ==
    /\ sm_pc = "done"
    /\ d' = [j \in 0..(n_blocks - 1) |->
                DegreeOf(Size(A_indptr) - 1, ColumnSum(BS_data, BS_indices, j))]
    /\ sm_pc' = "closed"
    /\ opc' = IF opc = "support" THEN "alloc" ELSE opc
    /\ UNCHANGED << args, allocated, result, shared, sm_in, BS_indices,
                    BS_indptr, seen_blocks, counter_indptr, sm_i, sm_j, BS_data, wk >>

\* -------------------------------------- a standalone call of the builder
\* Every CSR index structure with nr rows, nc columns and at most MaxNnz
\* stored entries (indptr starts at 0 and never decreases).
IndPtrs(nr) ==
    {p \in [0..nr -> 0..MaxNnz] :
        p[0] = 0 /\ \A r \in 0..(nr - 1) : p[r] <= p[r + 1]}

\* The locals of a job that has not been submitted.
NoWorker ==
    [pc |-> "none", it |-> 0, cert |-> Inf, x_old |-> << >>,
     sample_indices |-> << >>, pos |-> 0, i |-> 0, j |-> 0, p |-> 0,
     grad_i |-> 0, mem_i |-> 0, incr |-> 0, grad_tmp |-> << >>, ret |-> << >>,
     epochs |-> 0, late_checks |-> 0, saw_stop |-> FALSE, recorded |-> 0,
     later |-> {}, overtaken |-> FALSE, last_grad |-> << >>, orders |-> << >>,
     disturbed |-> FALSE]

\* The state of the solver's variables when no solve is in progress.
NoSolve ==
    /\ f = [n_samples |-> 0, n_features |-> 0, A_indptr |-> << >>,
            A_indices |-> << >>, A_data |-> << >>, b |-> << >>, alpha |-> 0,
            x0 |-> << >>]
    /\ is_separable = TRUE
    /\ step_size = 1
    /\ n_jobs = 0
    /\ max_iter = 0
    /\ tol = 0
    /\ trace = FALSE
    /\ opc = "idle"
    /\ allocated = {}
    /\ x = << >>
    /\ memory_gradient = << >>
    /\ gradient_average = << >>
    /\ stop_flag = FALSE
    /\ trace_x = << >>
    /\ result = << >>
    /\ wk = [w \in 0..(MaxJobs - 1) |-> NoWorker]

SupportIdle ==
    /\ BS_indices = << >>
    /\ BS_indptr = << >>
    /\ seen_blocks = << >>
    /\ counter_indptr = 0
    /\ sm_i = 0
    /\ sm_j = 0
    /\ BS_data = << >>
    /\ d = << >>

InitSupport ==
    /\ NoSolve
    /\ SupportIdle
    /\ sm_pc = "call"
    /\ \E nr \in 0..MaxRows, nc \in 1..MaxCols :
         /\ A_indptr \in IndPtrs(nr)
         /\ A_indices \in Arrays(A_indptr[nr], 0..(nc - 1))
         /\ n_blocks \in 1..nc
         /\ g_blocks \in Arrays(nc, 0..(n_blocks - 1))

NextSupport ==
    \/ SupportCall
    \/ SupportRow
    \/ SupportScan
    \/ SupportCleanup
    \/ SupportReturn
    \/ Degree

SpecSupport == InitSupport /\ [][NextSupport]_vars

\* ------------------------------------------------------ problem instances
\* The loss objects f a solve is run on: a CSR design matrix A (n_samples x
\* n_features), targets b, the regularisation alpha and the starting point x0.
\* Every stored entry of A is a multiple of n_samples and every column count
\* divides n_samples, so the kernel's divisions are exact.
\*   AtOptimum: one sample, started at its minimiser (no update changes x);
\*   OneSample: the same sample, started at 0;
\*   TwoSamples: two samples of one feature, started at 0;
\*   TwoFeatures: two samples of two features, the first storing the second
\*   feature only and the second storing both, started at 0.
AtOptimum ==
    [n_samples |-> 1, n_features |-> 1, A_indptr |-> Arange(2),
     A_indices |-> Arr(1, 0), A_data |-> Arr(1, 1), b |-> Arr(1, 1),
     alpha |-> 0, x0 |-> Arr(1, 1)]

OneSample ==
    [n_samples |-> 1, n_features |-> 1, A_indptr |-> Arange(2),
     A_indices |-> Arr(1, 0), A_data |-> Arr(1, 1), b |-> Arr(1, 1),
     alpha |-> 0, x0 |-> Arr(1, 0)]

TwoSamples ==
    [n_samples |-> 2, n_features |-> 1, A_indptr |-> Arange(3),
     A_indices |-> Arr(2, 0), A_data |-> Arr(2, 2), b |-> Arange(2),
     alpha |-> 0, x0 |-> Arr(1, 0)]

TwoFeatures ==
    [n_samples |-> 2, n_features |-> 2, A_indptr |-> 0 :> 0 @@ 1 :> 1 @@ 2 :> 3,
     A_indices |-> 0 :> 1 @@ 1 :> 0 @@ 2 :> 1, A_data |-> Arr(3, 2), b |-> Arr(2, 1),
     alpha |-> 0, x0 |-> Arr(2, 0)]

Problems == {AtOptimum, OneSample, TwoSamples, TwoFeatures}

\* The runs explored.  Workers that race on changing data multiply the
\* interleavings: OneSample is raced by two workers, for one epoch with every
\* tolerance and for two epochs with the tolerance that never stops them;
\* TwoSamples and TwoFeatures are run by one worker; AtOptimum is run by one
\* or two workers for every epoch budget within the bounds, by three for one
\* epoch, and by more with a budget that allows no epoch.
Explored(F, jobs, budget, t) ==
    \/ F = AtOptimum /\ (jobs <= 2 \/ (jobs = 3 /\ budget <= 2) \/ budget <= 1)
    \/ F = OneSample /\ (jobs = 1 \/ (jobs = 2 /\ (budget <= 2 \/ (budget = 3 /\ t = 0))))
    \/ F \in {TwoSamples, TwoFeatures} /\ jobs = 1

\* The tolerances a caller passes (0: never converged; larger: sooner).
Tols == {0, 1, 2}

\* --------------------------------------------------- external collaborators
\* f.partial_gradient_factory() of the Huber loss: the residual p - b_i,
\* clipped to [-2, 2].
partial_gradient(p, b_i) ==
    IF p - b_i > 2 THEN 2 ELSE IF p - b_i < -2 THEN -2 ELSE p - b_i

\* g.prox_factory() of utils.DummyProx (no penalty): the identity.
prox(v, s) == v

\* f(v) + g(v), a sum of squared residuals, with no penalty.
RECURSIVE RowDot(_, _, _, _)
RowDot(F, v, lo, hi) ==
    IF lo >= hi THEN 0
    ELSE F.A_data[lo] * v[F.A_indices[lo]] + RowDot(F, v, lo + 1, hi)

RECURSIVE Objective(_, _, _)
Objective(F, v, i) ==
    IF i >= F.n_samples THEN 0
    ELSE LET r == RowDot(F, v, F.A_indptr[i], F.A_indptr[i + 1]) - F.b[i]
         IN r * r + Objective(F, v, i + 1)

\* ------------------------------------------------------------- arithmetic
\* A float division whose result is exact (any other is outside the model).
Div(a, b) == CASE a % b = 0 -> a \div b

\* q * v for a degree q = << numerator, denominator >>.
MulDeg(q, v) == Div(q[1] * v, q[2])

\* The square of np.linalg.norm(u - v).
RECURSIVE NormSq(_, _, _)
NormSq(u, v, k) ==
    IF k >= Size(u) THEN 0
    ELSE (u[k] - v[k]) * (u[k] - v[k]) + NormSq(u, v, k + 1)

\* Line 212: np.linalg.norm(x - x_old) / step_size, squared.
Certificate(u, v, step) == Div(NormSq(u, v, 0), step * step)

\* cert < tol, on a squared certificate and a tolerance tol >= 0.
CertBelow(cert, t) == cert # Inf /\ cert < t * t

\* All orders np.random.shuffle can leave the sample indices in.
Shuffles(n) ==
    {s \in Arrays(n, 0..(n - 1)) : \A a, c \in 0..(n - 1) : a # c => s[a] # s[c]}

\* ----------------------------------------------------------- minimize_SAGA
Buffers == {"x", "memory_gradient", "gradient_average", "trace_x", "stop_flag"}

Init ==
    /\ f \in Problems
    /\ is_separable \in BOOLEAN
    /\ step_size = 1
    /\ n_jobs \in 1..MaxJobs
    /\ max_iter \in 0..MaxIter
    /\ tol \in Tols
    /\ trace \in BOOLEAN
    /\ Explored(f, n_jobs, max_iter, tol)
    /\ opc = "start"
    /\ allocated = {}
    /\ x = << >>
    /\ memory_gradient = << >>
    /\ gradient_average = << >>
    /\ stop_flag = FALSE
    /\ trace_x = << >>
    /\ result = << >>
    /\ wk = [w \in 0..(MaxJobs - 1) |-> NoWorker]
    /\ A_indices = << >>
    /\ A_indptr = << >>
    /\ g_blocks = << >>
    /\ n_blocks = 0
    /\ SupportIdle
    /\ sm_pc = "idle"

\* Lines 47-50: the buffers that exist once the defaults are derived.
DefaultBuffers_All == Buffers

DefaultBuffers == {"x"}

\* Lines 47-58: x is x0's copy (or zeros); success starts False.
Defaults ==
    /\ opc = "start"
    /\ x' = f.x0
    /\ allocated' = allocated \cup DefaultBuffers
    /\ opc' = "factory"
    /\ UNCHANGED << args, result, memory_gradient, gradient_average, stop_flag,
                    trace_x, sm_in, sm_loc, d, wk >>

\* Line 59, lines 139-154: the factory raises NotImplementedError for a
\* non-separable penalty, and otherwise calls the builder with the identity
\* block mapping (lines 152, 156-161).
FactoryRaises_Never(sep) == FALSE

FactoryRaises(sep) == ~sep

Factory ==
    /\ opc = "factory"
    /\ IF FactoryRaises(is_separable)
       THEN /\ opc' = "raised"
            /\ UNCHANGED << sm_in, sm_pc >>
       ELSE /\ opc' = "support"
            /\ A_indices' = f.A_indices
            /\ A_indptr' = f.A_indptr
            /\ g_blocks' = Arange(f.n_features)
            /\ n_blocks' = f.n_features
            /\ sm_pc' = "call"
    /\ UNCHANGED << args, allocated, result, shared, BS_indices, BS_indptr,
                    seen_blocks, counter_indptr, sm_i, sm_j, BS_data, d, wk >>

\* Lines 60-73: the memory terms, the trace buffer and the stop flag.
Allocate ==
    /\ opc = "alloc"
    /\ memory_gradient' = Arr(f.n_samples, 0)
    /\ gradient_average' = Arr(f.n_features, 0)
    /\ trace_x' = IF trace THEN Arr(max_iter, Arr(f.n_features, 0)) ELSE << >>
    /\ stop_flag' = FALSE
    /\ allocated' = allocated \cup {"memory_gradient", "gradient_average", "trace_x", "stop_flag"}
    /\ opc' = "submit"
    /\ UNCHANGED << args, result, x, sm_in, sm_loc, d, wk >>

\* Lines 78-82: executor.submit for the next job_id of range(n_jobs).
Submit ==
    /\ opc = "submit"
    /\ IF \E w \in 0..(n_jobs - 1) : wk[w].pc = "none"
       THEN LET job_id == CHOOSE w \in 0..(n_jobs - 1) :
                            wk[w].pc = "none" /\ \A v \in 0..(w - 1) : wk[v].pc # "none"
            IN /\ wk' = [wk EXCEPT ![job_id].pc = "queued"]
               /\ opc' = opc
       ELSE /\ opc' = "wait"
            /\ wk' = wk
    /\ UNCHANGED << args, allocated, result, shared, sm_in, sm_loc, d >>

\* Line 83 (and the executor's shutdown at the end of the with block): the
\* futures the orchestrator waits for before it goes on.
Awaited_FirstOnly(jobs) == {0}

Awaited(jobs) == 0..(jobs - 1)

Wait ==
    /\ opc = "wait"
    /\ \A w \in Awaited(n_jobs) : wk[w].pc = "done"
    /\ opc' = "collect"
    /\ UNCHANGED << args, allocated, result, shared, sm_in, sm_loc, d, wk >>

\* Lines 97-98: success.
Success_Always(certificate, t) == TRUE

Success(certificate, t) == CertBelow(certificate, t)

\* Lines 85-102: the result, from the future of job 0.
Collect ==
    /\ opc = "collect"
    /\ LET n_iter == wk[0].ret[1]
           certificate == wk[0].ret[2]
       IN result' = [x |-> x,
                     success |-> Success(certificate, tol),
                     nit |-> n_iter,
                     certificate |-> certificate,
                     trace_func |-> IF trace
                                    THEN [r \in 0..(n_iter - 1) |-> Objective(f, trace_x[r], 0)]
                                    ELSE << >>]
    /\ opc' = "returned"
    /\ UNCHANGED << args, allocated, shared, sm_in, sm_loc, d, wk >>

\* ------------------------------------------------- epoch_iteration_template
\* The position after a loop over the stored entries of row i is entered:
\* its body when the row stores an entry, what follows it otherwise.
EnterRow(i, body, after) == IF A_indptr[i] < A_indptr[i + 1] THEN body ELSE after

\* The position and index after one iteration of such a loop.
NextEntry(i, j, body, after) == IF j + 1 < A_indptr[i + 1] THEN body ELSE after

NextIndex(i, j) == IF j + 1 < A_indptr[i + 1] THEN j + 1 ELSE A_indptr[i]

\* The role-specific position at the end of an epoch (lines 208, 216, 226).
EpochEnd_ElseResync(job_id) ==
    IF job_id = 0 THEN (IF trace THEN "trace" ELSE "cert") ELSE "resync"

EpochEnd(job_id) ==
    IF job_id = 0 THEN (IF trace THEN "trace" ELSE "cert")
    ELSE IF job_id = 1 THEN "resync"
    ELSE "check"

\* The position of a worker whose inner loop is at index pos of its order.
VisitOrEnd(job_id, order, pos) ==
    IF pos < f.n_samples THEN "pred" ELSE EpochEnd(job_id)

\* The positions of a visit to a sample (lines 187-206), and the workers
\* that are in a visit to sample i.
VisitPcs == {"pred", "grad", "coef_ld", "coef_st", "avg_ld", "avg_st", "memw"}

Visiting(u, i) == wk[u].pc \in VisitPcs /\ wk[u].i = i

\* The order of the visits, kept for the other workers when worker w ends a
\* visit to sample ended by its store of line 206 (no visit: -1) and begins
\* one to sample began (no visit: -1).  For a worker u in a visit to i,
\* later is the set of workers whose current visit to i began after u's, and
\* overtaken tells that one of them has stored memory_gradient[i] since.
\* For a worker u in its recomputation of lines 218-224, disturbed tells that
\* another worker has stored into memory_gradient since it began.
Visits(w, ended, began) ==
    [u \in DOMAIN wk |->
        IF u = w THEN wk[u]
        ELSE [wk[u] EXCEPT
                !.disturbed = @ \/ (ended # -1 /\ wk[u].pc \in {"resync_ld", "copy"}),
                !.overtaken = @ \/ (Visiting(u, ended) /\ w \in wk[u].later),
                !.later = (@ \ {w}) \cup (IF Visiting(u, began) THEN {w} ELSE {})]]

\* Lines 175-178: the worker's locals.
KStart(w) ==
    /\ wk[w].pc = "queued"
    /\ wk' = [wk EXCEPT ![w] =
                [@ EXCEPT !.pc = IF w = 0 /\ trace THEN "trace0" ELSE "loop",
                          !.x_old = x,
                          !.cert = Inf,
                          !.it = 0,
                          !.sample_indices = Arange(f.n_samples),
                          !.last_grad = Arr(f.n_samples, {})]]
    /\ UNCHANGED << args, orch, shared, sm_in, sm_loc, d >>

\* A store of x into row r of the trace buffer by worker w, which goes on at
\* position after; recorded counts the rows the worker has stored.  The
\* kernel is compiled without bounds checks: a store
\* past the last row is undefined behaviour, which lands in memory the model
\* does not hold, or aborts the process (no thread takes another step).
TraceStore(w, r, after) ==
    IF r < Size(trace_x)
    THEN /\ trace_x' = [trace_x EXCEPT ![r] = x]
         /\ wk' = [wk EXCEPT ![w] = [@ EXCEPT !.pc = after, !.recorded = @ + 1]]
         /\ opc' = opc
    ELSE /\ trace_x' = trace_x
         /\ \/ /\ wk' = [wk EXCEPT ![w].pc = after]
               /\ opc' = opc
            \/ /\ wk' = [v \in DOMAIN wk |-> [wk[v] EXCEPT !.pc = "aborted"]]
               /\ opc' = "aborted"

\* Lines 180-181: trace_x[0, :] = x.
KTraceInit(w) ==
    /\ wk[w].pc = "trace0"
    /\ TraceStore(w, 0, "loop")
    /\ UNCHANGED << args, allocated, result, x, memory_gradient, gradient_average,
                    stop_flag, sm_in, sm_loc, d >>

\* Line 184: the epochs range(1, max_iter) still has to give.
EpochsLeft_Inclusive(it, mi) == it + 1 <= mi

EpochsLeft(it, mi) == it + 1 < mi

\* Lines 184-186: the next epoch (it, a fresh shuffle, the first sample), or
\* the end of the loop.  orders keeps the permutations the worker has drawn,
\* one per epoch.
KLoop(w) ==
    /\ wk[w].pc = "loop"
    /\ IF EpochsLeft(wk[w].it, max_iter)
       THEN \E order \in Shuffles(f.n_samples) :
              wk' = [Visits(w, -1, IF f.n_samples > 0 THEN order[0] ELSE -1)
                       EXCEPT ![w] =
                       [@ EXCEPT !.it = @ + 1,
                                 !.sample_indices = order,
                                 !.orders = Append(@, order),
                                 !.pos = 0,
                                 !.i = IF f.n_samples > 0 THEN order[0] ELSE 0,
                                 !.j = IF f.n_samples > 0 THEN A_indptr[order[0]] ELSE 0,
                                 !.p = 0,
                                 !.later = {},
                                 !.overtaken = FALSE,
                                 !.pc = VisitOrEnd(w, order, 0)]]
       ELSE wk' = [wk EXCEPT ![w].pc = "ret"]
    /\ UNCHANGED << args, orch, shared, sm_in, sm_loc, d >>

\* Lines 187-190: one term of the prediction p (an empty row has none).
KPred(w) ==
    LET me == wk[w] IN
    /\ me.pc = "pred"
    /\ IF A_indptr[me.i] < A_indptr[me.i + 1]
       THEN wk' = [wk EXCEPT ![w] =
                     [@ EXCEPT !.p = @ + x[A_indices[me.j]] * f.A_data[me.j],
                               !.j = NextIndex(me.i, me.j),
                               !.pc = NextEntry(me.i, me.j, "pred", "grad")]]
       ELSE wk' = [wk EXCEPT ![w].pc = "grad"]
    /\ UNCHANGED << args, orch, shared, sm_in, sm_loc, d >>

\* Lines 192-193: grad_i and mem_i.
KGrad(w) ==
    LET me == wk[w] IN
    /\ me.pc = "grad"
    /\ wk' = [wk EXCEPT ![w] =
                [@ EXCEPT !.grad_i = partial_gradient(me.p, f.b[me.i]),
                          !.mem_i = memory_gradient[me.i],
                          !.pc = EnterRow(me.i, "coef_ld", "memw")]]
    /\ UNCHANGED << args, orch, shared, sm_in, sm_loc, d >>

\* Lines 198-199: incr, from the loads of gradient_average and x.
KCoefLoad(w) ==
    LET me == wk[w]
        j_idx == A_indices[me.j]
    IN
    /\ me.pc = "coef_ld"
    /\ wk' = [wk EXCEPT ![w] =
                [@ EXCEPT !.incr = (me.grad_i - me.mem_i) * f.A_data[me.j]
                                   + MulDeg(d[j_idx], gradient_average[j_idx] + f.alpha * x[j_idx]),
                          !.pc = "coef_st"]]
    /\ UNCHANGED << args, orch, shared, sm_in, sm_loc, d >>

\* Lines 200 and 205: the entry a store of the visit to row i goes to, for
\* the stored column j_idx.
Target_Row(i, j_idx) == i

Target(i, j_idx) == j_idx

\* Line 200: the store of x[j_idx].
KCoefStore(w) ==
    LET me == wk[w]
        j_idx == A_indices[me.j]
    IN
    /\ me.pc = "coef_st"
    /\ x' = [x EXCEPT ![Target(me.i, j_idx)] =
                          prox(@ - step_size * me.incr, MulDeg(d[j_idx], step_size))]
    /\ wk' = [wk EXCEPT ![w] =
                [@ EXCEPT !.incr = 0,
                          !.j = NextIndex(me.i, me.j),
                          !.pc = NextEntry(me.i, me.j, "coef_ld", "avg_ld")]]
    /\ UNCHANGED << args, orch, memory_gradient, gradient_average, stop_flag, trace_x,
                    sm_in, sm_loc, d >>

\* Line 205: the memory term subtracted from grad_i, given the local mem_i
\* of line 193 and the value memory_gradient[i] holds now: the code reads
\* memory_gradient[i] again.
MemoryOperand_Cached(mem_i, current) == mem_i

MemoryOperand(mem_i, current) == current

\* Line 205: the amount added to gradient_average[j_idx] for the stored
\* entry a of a row, out of n samples.
AvgTerm_Unscaled(grad_i, mem, a, n) == (grad_i - mem) * a

AvgTerm(grad_i, mem, a, n) == Div((grad_i - mem) * a, n)

\* Line 205, the right-hand side: the loads of gradient_average[j_idx] and
\* memory_gradient[i], and the sum to be stored.
KAvgLoad(w) ==
    LET me == wk[w]
        j_idx == A_indices[me.j]
    IN
    /\ me.pc = "avg_ld"
    /\ wk' = [wk EXCEPT ![w] =
                [@ EXCEPT !.incr = gradient_average[j_idx]
                                   + AvgTerm(me.grad_i,
                                             MemoryOperand(me.mem_i, memory_gradient[me.i]),
                                             f.A_data[me.j], f.n_samples),
                          !.pc = "avg_st"]]
    /\ UNCHANGED << args, orch, shared, sm_in, sm_loc, d >>

\* Line 205, the store of gradient_average[j_idx].
KAvgStore(w) ==
    LET me == wk[w]
        j_idx == A_indices[me.j]
    IN
    /\ me.pc = "avg_st"
    /\ gradient_average' = [gradient_average EXCEPT ![Target(me.i, j_idx)] = me.incr]
    /\ wk' = [wk EXCEPT ![w] =
                [@ EXCEPT !.incr = 0,
                          !.j = NextIndex(me.i, me.j),
                          !.pc = NextEntry(me.i, me.j, "avg_ld", "memw")]]
    /\ UNCHANGED << args, orch, x, memory_gradient, stop_flag, trace_x,
                    sm_in, sm_loc, d >>

\* Line 206: the value stored in memory_gradient[i].
Stored_Stale(grad_i, mem_i) == mem_i

Stored(grad_i, mem_i) == grad_i

\* Line 206: memory_gradient[i] = grad_i; then the next sample of the order,
\* or the end of the epoch (p, grad_i and mem_i are dead from here on).
\* last_grad[i] keeps the gradient the worker computed in its latest completed
\* visit to sample i.
KMemWrite(w) ==
    LET me == wk[w]
        pos == me.pos + 1
        last == pos >= f.n_samples
        i == IF last THEN 0 ELSE me.sample_indices[pos]
    IN
    /\ me.pc = "memw"
    /\ memory_gradient' = [memory_gradient EXCEPT ![me.i] = Stored(me.grad_i, me.mem_i)]
    /\ wk' = [Visits(w, me.i, IF last THEN -1 ELSE i) EXCEPT ![w] =
                [@ EXCEPT !.pos = IF last THEN 0 ELSE pos,
                          !.i = i,
                          !.j = IF last THEN 0 ELSE A_indptr[i],
                          !.p = 0,
                          !.grad_i = 0,
                          !.mem_i = 0,
                          !.later = {},
                          !.overtaken = FALSE,
                          !.last_grad = [@ EXCEPT ![me.i] = {me.grad_i}],
                          !.pc = VisitOrEnd(w, me.sample_indices, pos)]]
    /\ UNCHANGED << args, orch, x, gradient_average, stop_flag, trace_x,
                    sm_in, sm_loc, d >>

\* Lines 209-210: trace_x[it, :] = x.
KTrace(w) ==
    /\ wk[w].pc = "trace"
    /\ TraceStore(w, wk[w].it, "cert")
    /\ UNCHANGED << args, allocated, result, x, memory_gradient, gradient_average,
                    stop_flag, sm_in, sm_loc, d >>

\* Line 212: the certificate.
KCert(w) ==
    /\ wk[w].pc = "cert"
    /\ wk' = [wk EXCEPT ![w] =
                [@ EXCEPT !.cert = Certificate(x, wk[w].x_old, step_size),
                          !.pc = "xold"]]
    /\ UNCHANGED << args, orch, shared, sm_in, sm_loc, d >>

\* Line 213: x_old[:] = x.
KXOld(w) ==
    /\ wk[w].pc = "xold"
    /\ wk' = [wk EXCEPT ![w] = [@ EXCEPT !.x_old = x, !.pc = "flag"]]
    /\ UNCHANGED << args, orch, shared, sm_in, sm_loc, d >>

\* Line 214: the convergence test.
Converged_OrEqual(cert, t) == cert # Inf /\ cert <= t * t

Converged(cert, t) == CertBelow(cert, t)

\* Lines 214-215: the stop flag is set when the certificate is below tol.
KFlag(w) ==
    /\ wk[w].pc = "flag"
    /\ stop_flag' = IF Converged(wk[w].cert, tol) THEN TRUE ELSE stop_flag
    /\ wk' = [wk EXCEPT ![w].pc = "check"]
    /\ UNCHANGED << args, orch, x, memory_gradient, gradient_average, trace_x,
                    sm_in, sm_loc, d >>

\* Line 218: the vector the recomputation starts from.
ResyncStart_FromAverage(average, n) == average

ResyncStart(average, n) == Arr(n, 0)

\* Line 218: grad_tmp = np.zeros(n_features), and the first entry of line 219's
\* loop over the samples in the order of this epoch.
KResync(w) ==
    LET me == wk[w]
        i == IF f.n_samples > 0 THEN me.sample_indices[0] ELSE 0
    IN
    /\ me.pc = "resync"
    /\ wk' = [wk EXCEPT ![w] =
                [@ EXCEPT !.grad_tmp = ResyncStart(gradient_average, f.n_features),
                          !.disturbed = FALSE,
                          !.pos = 0,
                          !.i = i,
                          !.j = IF f.n_samples > 0 THEN A_indptr[i] ELSE 0,
                          !.pc = IF f.n_samples > 0 THEN "resync_ld" ELSE "copy"]]
    /\ UNCHANGED << args, orch, shared, sm_in, sm_loc, d >>

\* Lines 219-222: one stored entry's term of grad_tmp (a load of
\* memory_gradient[i]), then the next entry, the next sample, or the copy.
KResyncLoad(w) ==
    LET me == wk[w]
        stored == me.j < A_indptr[me.i + 1]
        same_row == me.j + 1 < A_indptr[me.i + 1]
        pos == IF same_row THEN me.pos ELSE me.pos + 1
        last == pos >= f.n_samples
        i == IF last THEN 0 ELSE me.sample_indices[pos]
    IN
    /\ me.pc = "resync_ld"
    /\ wk' = [wk EXCEPT ![w] =
                [@ EXCEPT !.grad_tmp =
                              IF stored
                              THEN [@ EXCEPT ![A_indices[me.j]] =
                                      @ + Div(memory_gradient[me.i] * f.A_data[me.j], f.n_samples)]
                              ELSE @,
                          !.pos = IF last THEN 0 ELSE pos,
                          !.i = i,
                          !.j = IF same_row THEN me.j + 1
                                ELSE IF last THEN 0 ELSE A_indptr[i],
                          !.pc = IF last THEN "copy" ELSE "resync_ld"]]
    /\ UNCHANGED << args, orch, shared, sm_in, sm_loc, d >>

\* Line 224: gradient_average[:] = grad_tmp.
KOverwrite(w) ==
    /\ wk[w].pc = "copy"
    /\ gradient_average' = wk[w].grad_tmp
    /\ wk' = [wk EXCEPT ![w] = [@ EXCEPT !.grad_tmp = << >>, !.pc = "check"]]
    /\ UNCHANGED << args, orch, x, memory_gradient, stop_flag, trace_x,
                    sm_in, sm_loc, d >>

\* Line 226: does the worker leave its loop on this value of the flag?
Breaks_OnlyMonitor(job_id, flag) == job_id = 0 /\ flag

Breaks(job_id, flag) == flag

\* Lines 226-227: the end-of-epoch read of the stop flag.  epochs counts the
\* epochs the worker has executed, late_checks the checks it completed with
\* the flag already true, saw_stop whether a check has read it as true.
KCheck(w) ==
    /\ wk[w].pc = "check"
    /\ wk' = [wk EXCEPT ![w] =
                [@ EXCEPT !.pc = IF Breaks(w, stop_flag) THEN "ret" ELSE "loop",
                          !.epochs = @ + 1,
                          !.late_checks = IF stop_flag THEN @ + 1 ELSE @,
                          !.saw_stop = @ \/ stop_flag]]
    /\ UNCHANGED << args, orch, shared, sm_in, sm_loc, d >>

\* Line 228: return it, cert.
Returned(it, cert) == << it, cert >>

KReturn(w) ==
    /\ wk[w].pc = "ret"
    /\ wk' = [wk EXCEPT ![w] =
                [@ EXCEPT !.ret = Returned(wk[w].it, wk[w].cert),
                          !.x_old = << >>,
                          !.sample_indices = << >>,
                          !.pc = "done"]]
    /\ UNCHANGED << args, orch, shared, sm_in, sm_loc, d >>

\* ------------------------------------------------------- specifications
Orchestrator ==
    \/ Defaults
    \/ Factory
    \/ SupportCall
    \/ SupportRow
    \/ SupportScan
    \/ SupportCleanup
    \/ SupportReturn
    \/ Degree
    \/ Allocate
    \/ Submit
    \/ Wait
    \/ Collect

Worker(w) ==
    \/ KStart(w)
    \/ KTraceInit(w)
    \/ KLoop(w)
    \/ KPred(w)
    \/ KGrad(w)
    \/ KCoefLoad(w)
    \/ KCoefStore(w)
    \/ KAvgLoad(w)
    \/ KAvgStore(w)
    \/ KMemWrite(w)
    \/ KTrace(w)
    \/ KCert(w)
    \/ KXOld(w)
    \/ KFlag(w)
    \/ KResync(w)
    \/ KResyncLoad(w)
    \/ KOverwrite(w)
    \/ KCheck(w)
    \/ KReturn(w)

Next ==
    \/ Orchestrator
    \/ \E w \in 0..(MaxJobs - 1) : Worker(w)

Spec == Init /\ [][Next]_vars

\* The executor runs every submitted job on a thread of its own, and the
\* operating system schedules every thread that can run.
FairSpec ==
    /\ Spec
    /\ WF_vars(Orchestrator)
    /\ \A w \in 0..(MaxJobs - 1) : WF_vars(Worker(w))

\* ----------------------------------------------------------------- claims
Jobs == 0..(n_jobs - 1)

Finished(w) == wk[w].pc \in {"ret", "done"}

Assembling == opc \in {"collect", "returned"}

\* C1: once the stop flag is true every worker leaves its epoch loop at its
\* next epoch boundary: a worker whose end-of-epoch check has read the flag
\* as true is out of its loop (where nothing writes x, memory_gradient or
\* gradient_average), and no worker completes more than one end-of-epoch
\* check with the flag already true.
C1_StopAtNextBoundary ==
    \A w \in Jobs :
        /\ wk[w].late_checks <= 1
        /\ wk[w].saw_stop => Finished(w)

\* A worker other than the monitor that left after its first epoch, with
\* another epoch in its budget, because it read the flag as true.
C1_Witness ==
    \E w \in Jobs :
        /\ w # 0
        /\ wk[w].pc = "done"
        /\ wk[w].saw_stop
        /\ wk[w].ret[1] = 1
        /\ max_iter = 3

\* C2: the stop flag is a one-way latch: false when the buffers are handed to
\* the workers; its only change is false -> true, made by job 0 in its
\* convergence test at the end of an epoch whose certificate is below tol;
\* nothing resets it.
C2_OneWayLatch ==
    [][ /\ (opc = "alloc" /\ opc' = "submit") => ~stop_flag'
        /\ stop_flag => stop_flag'
        /\ (stop_flag' # stop_flag) =>
              /\ 0 \in Jobs
              /\ wk[0].pc = "flag"
              /\ wk'[0].pc = "check"
              /\ wk[0].cert # Inf
              /\ wk[0].cert < tol * tol ]_vars

\* The flag has been set in a solve of two workers.
C2_Witness == stop_flag /\ n_jobs = 2 /\ wk[1].epochs >= 1

\* C3: the orchestrator assembles the result only after all n_jobs workers
\* have returned: while it assembles, every job is done and no step changes
\* x, memory_gradient or gradient_average.
C3_ReadAfterAllReturn ==
    /\ [](Assembling => \A w \in Jobs : wk[w].pc = "done")
    /\ [][Assembling => UNCHANGED << x, memory_gradient, gradient_average >>]_vars

\* The result of a solve whose second worker ran an epoch and returned after
\* the first.
C3_Witness ==
    /\ opc = "returned"
    /\ n_jobs = 2
    /\ wk[1].epochs >= 1
    /\ wk[0].epochs < wk[1].epochs
    /\ result.x = x

\* C4: every solve terminates: no run stops before the orchestrator has
\* returned its result (or raised the unsupported-configuration error).
C4_EverySolveReturns == opc \in {"returned", "raised"} \/ ENABLED Next

\* C4, the part that holds: under fair scheduling a solve that is not
\* aborted by the out-of-bounds store returns or raises.
C4_ReturnsUnlessAborted == <>(opc \in {"returned", "raised", "aborted"})

\* C5: success equals (certificate < tol) on the (n_iter, certificate) job 0
\* returned; a worker 0 that exhausted max_iter without a certificate below
\* tol gives success = false with its final certificate and epoch count.
C5_SuccessFromMonitor ==
    opc = "returned" =>
        /\ result.success = (wk[0].cert # Inf /\ wk[0].cert < tol * tol)
        /\ result.nit = wk[0].it
        /\ result.certificate = wk[0].cert
        /\ ~stop_flag =>
              /\ ~result.success
              /\ result.nit = wk[0].epochs

\* A returned solve of two workers in which job 0 used its whole budget
\* without converging.
C5_Witness ==
    /\ opc = "returned"
    /\ n_jobs = 2
    /\ ~result.success
    /\ result.nit = 2
    /\ result.certificate # Inf
    /\ result.certificate >= tol * tol

\* The epochs range(1, max_iter) gives.
BudgetEpochs == IF max_iter >= 1 THEN max_iter - 1 ELSE 0

\* C6 as stated: a returned worker's count is the number of epochs it
\* executed, a worker whose stop flag never became true executed max_iter
\* epochs, and job 0 returns the certificate of its last executed epoch.
C6_Original ==
    \A w \in Jobs :
        wk[w].pc = "done" =>
            /\ wk[w].ret[1] = wk[w].epochs
            /\ ~stop_flag => wk[w].epochs = max_iter
            /\ wk[w].ret[2] = wk[w].cert

\* C6 as amended: a returned worker's count is the number of epochs it
\* executed, at most max_iter - 1; a worker that never read the flag as true
\* executed max_iter - 1 epochs (none when max_iter is 0); job 0 returns the
\* certificate it computed at the end of its last executed epoch, and np.inf
\* when it executed none, as every other worker does.
C6_EpochsAndCertificate ==
    \A w \in Jobs :
        wk[w].pc = "done" =>
            /\ wk[w].ret[1] = wk[w].epochs
            /\ wk[w].epochs <= BudgetEpochs
            /\ ~wk[w].saw_stop => wk[w].epochs = BudgetEpochs
            /\ wk[w].ret[2] = wk[w].cert
            /\ (wk[w].ret[2] = Inf) = (w # 0 \/ wk[w].epochs = 0)

\* Job 0 returned after the two epochs of max_iter = 3 without ever reading
\* the flag as true.
C6_Witness ==
    /\ 0 \in Jobs
    /\ wk[0].pc = "done"
    /\ ~wk[0].saw_stop
    /\ max_iter = 3
    /\ wk[0].ret[1] = 2
    /\ wk[0].ret[2] # Inf

\* C7: with a non-separable penalty the solve fails before any worker is
\* launched: no job is ever submitted, the orchestrator never gets past the
\* factory, and x, memory_gradient and gradient_average receive no update.
C7_FailsBeforeLaunch ==
    ~is_separable =>
        /\ \A w \in Jobs : wk[w].pc = "none"
        /\ opc \in {"start", "factory", "raised"}
        /\ x \in {<< >>, f.x0}
        /\ memory_gradient = << >>
        /\ gradient_average = << >>

\* The error has been raised.
C7_Witness == opc = "raised" /\ ~is_separable /\ x = f.x0

\* C8 as stated: for a non-separable penalty no shared buffer is allocated
\* by the time the error is raised.
C8_Original == ~is_separable => allocated = {}

\* C8 as amended: for a non-separable penalty the error is raised before
\* memory_gradient, gradient_average, the stop flag and the trace buffer are
\* allocated; x alone already exists.
C8_OnlyXAllocated ==
    ~is_separable =>
        /\ allocated \subseteq {"x"}
        /\ opc = "raised" => allocated = {"x"}

\* The error has been raised with x allocated.
C8_Witness == opc = "raised" /\ "x" \in allocated /\ trace

\* The blocks of the columns stored in row i of A, in storage order.
RowBlocks(i) ==
    [k \in 1..(A_indptr[i + 1] - A_indptr[i]) |-> g_blocks[A_indices[A_indptr[i] + k - 1]]]

\* Row i of the returned block-support structure.
SupportRowOf(i) == Slice(BS_indices, BS_indptr[i], BS_indptr[i + 1])

\* The first position of v in the sequence s.
FirstAt(s, v) == CHOOSE k \in 1..Len(s) : s[k] = v /\ \A m \in 1..(k - 1) : s[m] # v

SupportReturned == sm_pc \in {"done", "closed"}

\* C9: row i of the structure _support_matrix returns lists exactly the
\* blocks of the columns stored in row i of A, each once, in order of first
\* occurrence; every data entry is 1 and the row's extent in BS_indptr is
\* its number of distinct blocks.
C9_SupportRows ==
    SupportReturned =>
        /\ DOMAIN BS_indptr = DOMAIN A_indptr
        /\ BS_indptr[0] = 0
        /\ DOMAIN BS_indices = 0..(BS_indptr[Size(A_indptr) - 1] - 1)
        /\ DOMAIN BS_data = DOMAIN BS_indices
        /\ \A k \in DOMAIN BS_data : BS_data[k] = 1
        /\ \A i \in 0..(Size(A_indptr) - 2) :
             LET row == RowBlocks(i)
                 out == SupportRowOf(i)
             IN /\ Range(out) = Range(row)
                /\ \A a, c \in 1..Len(out) : a # c => out[a] # out[c]
                /\ \A a, c \in 1..Len(out) :
                     a < c => FirstAt(row, out[a]) < FirstAt(row, out[c])
                /\ BS_indptr[i + 1] - BS_indptr[i] = Cardinality(Range(row))

\* A returned structure for a mapping of two columns to one block: the first
\* row stores both columns and lists the block once, and the next row lists
\* the same block again.
C9_Witness ==
    /\ sm_pc = "done"
    /\ Size(A_indptr) = 3
    /\ g_blocks # Arange(Size(g_blocks))
    /\ Len(RowBlocks(0)) = 2
    /\ A_indices[0] # A_indices[1]
    /\ Len(SupportRowOf(0)) = 1
    /\ SupportRowOf(1) = SupportRowOf(0)

\* The samples whose row stores a column of block j.
Touching(j) == {i \in 0..(Size(A_indptr) - 2) : j \in Range(RowBlocks(i))}

C11_TraceFuncPerRecordedRow ==
    (opc = "returned" /\ trace) =>
        /\ Size(result.trace_func) = wk[0].recorded
        /\ \A r \in 0..(wk[0].recorded - 1) :
              /\ r \in DOMAIN result.trace_func
              /\ result.trace_func[r] = Objective(f, trace_x[r], 0)

\* C12 as stated: memory_gradient[i] is the gradient of the most recent visit
\* to sample i by any worker, the visits taken in the order they began: a
\* worker never changes, by its store of line 206, the value a visit that
\* began after its own has stored.
C12_Original ==
    [][\A u \in Jobs :
          (wk[u].pc = "memw" /\ wk'[u].pc \notin {"memw", "aborted"} /\ wk[u].overtaken)
              => memory_gradient' = memory_gradient]_vars

\* C12 as amended: memory_gradient[i] is 0 until a visit to sample i has
\* completed its store, and from then on it is the gradient computed by one
\* worker's latest completed visit to i (the store made last wins, whichever
\* visit began first); with a single worker that is the most recent visit.
C12_LastStoreWins ==
    \A i \in DOMAIN memory_gradient :
        LET completed == {w \in Jobs : i \in DOMAIN wk[w].last_grad /\ wk[w].last_grad[i] # {}}
        IN memory_gradient[i] \in
              IF completed = {} THEN {0}
              ELSE UNION {wk[w].last_grad[i] : w \in completed}

\* Two workers have completed visits to one sample with different gradients,
\* and the value in memory is that of the worker whose visit began first and
\* stored last.
C12_Witness ==
    /\ n_jobs = 2
    /\ wk[0].pc \notin {"none", "queued"}
    /\ wk[1].pc \notin {"none", "queued"}
    /\ wk[0].last_grad[0] # {}
    /\ wk[1].last_grad[0] # {}
    /\ wk[0].last_grad[0] # wk[1].last_grad[0]
    /\ memory_gradient[0] # 0

\* The kernel of job 0 run alone, as a function of the buffers
\* S = [x, mg, ga] and of the permutations drawn: the coefficient loop of
\* lines 196-200 and the memory loop of lines 203-205 over the stored entries
\* k..hi-1 of row i, one visit (lines 187-206), one epoch (line 186) and the
\* epochs of line 184 with job 0's convergence test (lines 212-215, 226-228).
RECURSIVE SeqCoef(_, _, _, _, _)
SeqCoef(S, k, hi, grad, mem) ==
    IF k >= hi THEN S
    ELSE LET j_idx == f.A_indices[k]
             incr == (grad - mem) * f.A_data[k]
                     + MulDeg(d[j_idx], S.ga[j_idx] + f.alpha * S.x[j_idx])
         IN SeqCoef([S EXCEPT !.x[j_idx] = prox(@ - step_size * incr, MulDeg(d[j_idx], step_size))],
                    k + 1, hi, grad, mem)

RECURSIVE SeqAvg(_, _, _, _, _)
SeqAvg(S, k, hi, grad, i) ==
    IF k >= hi THEN S
    ELSE SeqAvg([S EXCEPT !.ga[f.A_indices[k]] =
                    @ + Div((grad - S.mg[i]) * f.A_data[k], f.n_samples)],
                k + 1, hi, grad, i)

SeqVisit(S, i) ==
    LET lo == f.A_indptr[i]
        hi == f.A_indptr[i + 1]
        grad == partial_gradient(RowDot(f, S.x, lo, hi), f.b[i])
        coef == SeqCoef(S, lo, hi, grad, S.mg[i])
        avg == SeqAvg(coef, lo, hi, grad, i)
    IN [avg EXCEPT !.mg[i] = grad]

RECURSIVE SeqEpoch(_, _, _)
SeqEpoch(S, order, pos) ==
    IF pos >= f.n_samples THEN S
    ELSE SeqEpoch(SeqVisit(S, order[pos]), order, pos + 1)

RECURSIVE SeqRun(_, _, _, _, _)
SeqRun(S, x_old, it, cert, orders) ==
    IF it + 1 < max_iter
    THEN LET after == SeqEpoch(S, orders[it + 1], 0)
             c == Certificate(after.x, x_old, step_size)
         IN IF c < tol * tol
            THEN [x |-> after.x, nit |-> it + 1, certificate |-> c]
            ELSE SeqRun(after, after.x, it + 1, c, orders)
    ELSE [x |-> S.x, nit |-> it, certificate |-> cert]

\* C13: with n_jobs = 1 the solve is deterministic: the x, n_iter,
\* certificate and success it returns are a function of f, x0, step_size,
\* max_iter, tol and the permutations drawn, so that two runs that agree on
\* these return the same.
C13_SingleWorkerDeterministic ==
    (opc = "returned" /\ n_jobs = 1) =>
        LET run == SeqRun([x |-> f.x0, mg |-> Arr(f.n_samples, 0), ga |-> Arr(f.n_features, 0)],
                          f.x0, 0, Inf, wk[0].orders)
        IN /\ result.x = run.x
           /\ result.nit = run.nit
           /\ result.certificate = run.certificate
           /\ result.success = (run.certificate # Inf /\ run.certificate < tol * tol)

\* A returned solve of one worker over two samples that drew the order
\* (1, 0) in its first epoch, ran a second one, and moved x.
C13_Witness ==
    /\ opc = "returned"
    /\ n_jobs = 1
    /\ f.n_samples = 2
    /\ result.nit = 2
    /\ wk[0].orders[1][0] = 1
    /\ result.x # f.x0

\* The row of A that holds the stored entry k, and the gradient average a
\* full recomputation from the memory mg gives (lines 218-222): for feature
\* j, the sum of mg[i] * A[i, j] / n_samples over the stored entries of
\* column j.
RowOfEntry(k) ==
    CHOOSE i \in 0..(f.n_samples - 1) : f.A_indptr[i] <= k /\ k < f.A_indptr[i + 1]

RECURSIVE AverageTo(_, _, _)
AverageTo(mg, j, k) ==
    IF k >= Size(f.A_indices) THEN 0
    ELSE (IF f.A_indices[k] = j
          THEN Div(mg[RowOfEntry(k)] * f.A_data[k], f.n_samples)
          ELSE 0) + AverageTo(mg, j, k + 1)

FullAverage(mg) == [j \in 0..(f.n_features - 1) |-> AverageTo(mg, j, 0)]

Accumulated(w, mem) ==
    gradient_average[A_indices[wk[w].j]]
        + Div((wk[w].grad_i - mem) * f.A_data[wk[w].j], f.n_samples)

\* C15 as stated: in every interleaving the amount a visit adds to
\* gradient_average[j] is (grad_i - mem_i) * A[i, j] / n_samples, with mem_i
\* the one value of memory_gradient[i] read in step 2 and used for x.
C15_Original ==
    [][\A w \in Jobs :
          (wk[w].pc = "avg_ld" /\ wk'[w].pc = "avg_st") =>
              wk'[w].incr = Accumulated(w, wk[w].mem_i)]_vars

\* C15 as amended: the x update uses the mem_i read in step 2; the amount
\* added to gradient_average[j] is (grad_i - m) * A[i, j] / n_samples with m
\* the value memory_gradient[i] holds when the amount is added, which is
\* mem_i when there is a single worker.
C15_RereadsMemory ==
    [][\A w \in Jobs :
          /\ (wk[w].pc = "avg_ld" /\ wk'[w].pc = "avg_st") =>
                /\ wk'[w].incr = Accumulated(w, memory_gradient[wk[w].i])
                /\ n_jobs = 1 => memory_gradient[wk[w].i] = wk[w].mem_i
          /\ (wk[w].pc = "coef_ld" /\ wk'[w].pc = "coef_st") =>
                wk'[w].incr =
                    (wk[w].grad_i - wk[w].mem_i) * f.A_data[wk[w].j]
                    + MulDeg(d[A_indices[wk[w].j]],
                             gradient_average[A_indices[wk[w].j]]
                             + f.alpha * x[A_indices[wk[w].j]])]_vars

\* A worker is about to store an amount computed from a memory_gradient[i]
\* that another worker changed after the worker's read of mem_i.
C15_Witness ==
    \E w \in Jobs :
        /\ wk[w].pc = "avg_st"
        /\ memory_gradient[wk[w].i] # wk[w].mem_i
        /\ wk[w].incr = Accumulated(w, memory_gradient[wk[w].i])
        /\ wk[w].incr # Accumulated(w, wk[w].mem_i)

\* C16: the roles are exclusive: only job 0 stores into the trace buffer, and
\* only when trace is true; only job 1 recomputes and overwrites
\* gradient_average in bulk; a worker with job_id >= 2 is never anywhere but
\* in the per-sample updates, the epoch loop and the stop-flag read.
C16_RolesExclusive ==
    /\ [](\A w \in Jobs :
            /\ (wk[w].pc \in {"trace0", "trace"}) => (w = 0 /\ trace)
            /\ (wk[w].pc \in {"resync", "resync_ld", "copy"}) => (w = 1)
            /\ (w >= 2) =>
                  (wk[w].pc \in {"none", "queued", "loop", "check", "ret", "done", "aborted"}
                                \cup VisitPcs))
    /\ [][
          /\ (opc = "submit" /\ trace_x' # trace_x) =>
                (trace /\ wk[0].pc \in {"trace0", "trace"} /\ wk'[0].pc # wk[0].pc)
          /\ (~trace) => (trace_x' = trace_x)
          /\ \A w \in Jobs :
                (w >= 2 /\ wk'[w].pc # wk[w].pc /\ wk'[w].pc # "aborted") =>
                    (stop_flag' = stop_flag /\ trace_x' = trace_x)
       ]_vars

\* A traced solve of three workers: job 2 has run an epoch and returned, job
\* 0 has recorded two rows and job 1 is at its overwrite.
C16_Witness ==
    /\ n_jobs = 3
    /\ trace
    /\ wk[2].pc = "done"
    /\ wk[2].ret[1] = 1
    /\ wk[0].recorded = 2
    /\ wk[1].pc = "copy"

\* The blocks whose mark is set, and the blocks stored at the positions
\* lo..hi-1 of the output.
Marked == {g \in DOMAIN seen_blocks : seen_blocks[g] # 0}

Emitted(lo, hi) == {BS_indices[k] : k \in lo..(hi - 1)}

\* C17: the marker array is all zero at the start of every row and when the
\* builder returns; while a row is scanned the marks are those of the blocks
\* emitted for it so far; the cleanup clears exactly those, one emitted block
\* per step, each of them marked until then, and touches no other entry.
C17_SeenRestored ==
    /\ [](/\ (sm_pc \in {"row", "ret", "done", "closed"}) => (Marked = {})
          /\ (sm_pc = "scan") => (Marked = Emitted(BS_indptr[sm_i], counter_indptr))
          /\ (sm_pc = "cleanup") => (Marked = Emitted(sm_j, counter_indptr)))
    /\ [][(sm_pc = "cleanup" /\ sm_j < counter_indptr) =>
              /\ seen_blocks[BS_indices[sm_j]] = 1
              /\ seen_blocks' = [seen_blocks EXCEPT ![BS_indices[sm_j]] = 0]]_vars

\* The second row is about to start, after a first row that stored the same
\* block twice and left the other block of the mapping untouched.
C17_Witness ==
    /\ sm_pc = "row"
    /\ sm_i = 1
    /\ n_blocks = 2
    /\ A_indptr[1] = 2
    /\ counter_indptr = 1
    /\ Marked = {}

\* C18: with a single worker and both memory buffers started at zero, after
\* every completed sample visit (and until the next one starts to change the
\* average) gradient_average is what a full recomputation from
\* memory_gradient gives: gradient_average[j] is the sum over the samples i
\* of memory_gradient[i] * A[i, j] / n_samples.
C18_AverageNeverDrifts ==
    (n_jobs = 1 /\ opc \in {"submit", "wait", "collect", "returned"}
                /\ wk[0].pc \notin {"avg_ld", "avg_st", "memw"}) =>
        gradient_average = FullAverage(memory_gradient)

\* The single worker has completed a visit to each of two samples, left a
\* non-zero memory for both, and is about to start another visit.
C18_Witness ==
    /\ n_jobs = 1
    /\ f.n_samples = 2
    /\ wk[0].pc = "pred"
    /\ wk[0].it = 2
    /\ memory_gradient[0] # 0
    /\ memory_gradient[1] # 0
    /\ gradient_average # Arr(f.n_features, 0)

\* The columns stored in row i of A.
RowColumns(i) == {f.A_indices[k] : k \in f.A_indptr[i]..(f.A_indptr[i + 1] - 1)}

\* The locals of the kernel in a worker's record (the other fields are
\* bookkeeping about the run), and the workers that take the step, being at
\* position pc before it.
LocalsOf(r) ==
    << r.pc, r.it, r.cert, r.x_old, r.sample_indices, r.pos, r.i, r.j, r.p,
       r.grad_i, r.mem_i, r.incr, r.grad_tmp, r.ret >>

Moving(pc) == {w \in Jobs : wk[w].pc = pc /\ LocalsOf(wk'[w]) # LocalsOf(wk[w])}

\* C19: while the workers run, an entry x[j] changes only by the store of
\* line 200 of a worker visiting a row i that stores column j, an entry
\* gradient_average[j] only by the store of line 205 of such a worker (or by
\* job 1's overwrite, which is no part of a visit), and an entry
\* memory_gradient[i] only by the store of line 206 of a worker visiting i;
\* a visit changes nothing else of the three, and no step of a solve writes
\* A, b, alpha (the fields of f) or, once the workers run, d.
C19_VisitFrame ==
    [][/\ f' = f
       /\ (opc \in {"submit", "wait"}) =>
            /\ d' = d
            /\ \A j \in DOMAIN x :
                  (x'[j] # x[j]) =>
                      (\E w \in Moving("coef_st") : j \in RowColumns(wk[w].i))
            /\ \A j \in DOMAIN gradient_average :
                  (gradient_average'[j] # gradient_average[j]) =>
                      \/ \E w \in Moving("avg_st") : j \in RowColumns(wk[w].i)
                      \/ Moving("copy") # {}
            /\ \A i \in DOMAIN memory_gradient :
                  (memory_gradient'[i] # memory_gradient[i]) =>
                      (\E w \in Moving("memw") : wk[w].i = i)
            /\ (Moving("coef_st") # {}) =>
                  (gradient_average' = gradient_average /\ memory_gradient' = memory_gradient)
            /\ (Moving("avg_st") # {}) => (x' = x /\ memory_gradient' = memory_gradient)
            /\ (Moving("memw") # {}) => (x' = x /\ gradient_average' = gradient_average)
            /\ (\E pc \in {"pred", "grad", "coef_ld", "avg_ld"} : Moving(pc) # {}) =>
                  (x' = x /\ gradient_average' = gradient_average
                          /\ memory_gradient' = memory_gradient)
      ]_vars

\* A worker on two samples and two features has visited the row that stores
\* the second feature only: x and gradient_average changed there and nowhere
\* else, and the memory changed for that sample only.
C19_Witness ==
    /\ f.n_features = 2
    /\ wk[0].pc = "pred"
    /\ wk[0].it = 1
    /\ wk[0].pos = 1
    /\ wk[0].sample_indices[0] = 0
    /\ x[1] # 0 /\ x[0] = 0
    /\ gradient_average[1] # 0 /\ gradient_average[0] = 0
    /\ memory_gradient[0] # 0 /\ memory_gradient[1] = 0

\* C20: when a solve has returned, success is true exactly when the shared
\* stop flag is true; if the flag is true, job 0 left at the very check that
\* followed its setting the flag, so the certificate it returned is below
\* tol; if the certificate it returned is below tol, the flag is set.
C20_SuccessIffStopFlag ==
    opc = "returned" =>
        /\ result.success <=> stop_flag
        /\ result.certificate = wk[0].ret[2]
        /\ stop_flag =>
              /\ CertBelow(result.certificate, tol)
              /\ wk[0].late_checks = 1
              /\ result.nit = wk[0].epochs
        /\ CertBelow(result.certificate, tol) => stop_flag

\* A solve with two workers has returned successfully after job 0 ran an
\* epoch, set the flag and left.
C20_Witness ==
    /\ opc = "returned"
    /\ n_jobs = 2
    /\ result.success
    /\ stop_flag
    /\ wk[0].epochs >= 1
    /\ wk[1].epochs >= 1
====
